---- MODULE Spec2Model ----
(***************************************************************************)
(* tools/http-server.py: a static file server (socketserver.TCPServer with *)
(* a SimpleHTTPRequestHandler subclass) that injects the two cross-origin  *)
(* isolation headers in end_headers and overrides guess_type for .html and *)
(* .js.  The methods the script inherits from http.server / socketserver   *)
(* are modelled as CPython 3.11 implements them; strings that the code     *)
(* inspects (paths) are sequences of one-character strings.                *)
(***************************************************************************)
EXTENDS Integers, Sequences, FiniteSets, TLC

VARIABLES
    pc,           \* "start" | "bound" | "serving" | "failed" | "killed"
    argv,         \* sys.argv[1:], never read by the script
    bindAttempts, \* number of bind() calls made by TCPServer.__init__
    bindFailed,   \* TRUE once bind() has raised OSError
    boundPort,    \* port of the listening socket, 0 while there is none
    stdout,       \* lines written by print()
    exitStatus,   \* "running" | "exit1" (uncaught exception) | "signal"
    served,       \* connections handled by serve_forever so far
    failures,     \* of those, how many ended in an error status or an exception
    fs,           \* the served directory at request time
    mimedb,       \* the mimetypes table of the host (system dependent)
    req,          \* the request handled last
    resp          \* what the handler of the last request left behind

vars == <<pc, argv, bindAttempts, bindFailed, boundPort, stdout, exitStatus,
          served, failures, fs, mimedb, req, resp>>

\* Requests handled in one run of the model.
MaxRequests == 2

---------------------------------------------------------------------------
(* Strings *)

DOT_HTML == <<".", "h", "t", "m", "l">>
DOT_JS == <<".", "j", "s">>

\* str.endswith
EndsWith(s, suffix) ==
    /\ Len(s) >= Len(suffix)
    /\ SubSeq(s, Len(s) - Len(suffix) + 1, Len(s)) = suffix

\* str.startswith
StartsWith(s, prefix) ==
    /\ Len(s) >= Len(prefix)
    /\ SubSeq(s, 1, Len(prefix)) = prefix

\* s.split(c, 1)[0]
RECURSIVE Before(_, _)
Before(s, c) ==
    IF s = <<>> \/ Head(s) = c THEN <<>>
    ELSE <<Head(s)>> \o Before(Tail(s), c)

\* s.split('/')
RECURSIVE SplitFrom(_, _, _)
SplitFrom(s, done, word) ==
    IF s = <<>> THEN Append(done, word)
    ELSE IF Head(s) = "/" THEN SplitFrom(Tail(s), Append(done, word), <<>>)
    ELSE SplitFrom(Tail(s), done, Append(word, Head(s)))

SplitSlash(s) == SplitFrom(s, <<>>, <<>>)

\* '/'.join(words)
RECURSIVE JoinSlash(_)
JoinSlash(words) ==
    IF words = <<>> THEN <<>>
    ELSE IF Len(words) = 1 THEN words[1]
    ELSE words[1] \o <<"/">> \o JoinSlash(Tail(words))

\* str.lower on the letters of the alphabet used here
LowerChar(c) ==
    CASE c = "H" -> "h" [] c = "T" -> "t" [] c = "M" -> "m" [] c = "L" -> "l"
      [] OTHER -> c

Lower(s) == [i \in 1..Len(s) |-> LowerChar(s[i])]

\* urllib.parse.unquote, for the escapes of the alphabet used here (%2E, %2e)
RECURSIVE unquote(_)
unquote(s) ==
    IF s = <<>> THEN <<>>
    ELSE IF Len(s) >= 3 /\ s[1] = "%" /\ s[2] = "2" /\ s[3] \in {"E", "e"}
         THEN <<".">> \o unquote(SubSeq(s, 4, Len(s)))
         ELSE <<Head(s)>> \o unquote(Tail(s))

\* posixpath.normpath: the components kept, left to right
RECURSIVE NormComps(_, _, _)
NormComps(comps, acc, initial_slashes) ==
    IF comps = <<>> THEN acc
    ELSE LET comp == Head(comps)
             rest == Tail(comps)
         IN IF comp = <<>> \/ comp = <<".">> THEN NormComps(rest, acc, initial_slashes)
            ELSE IF \/ comp # <<".", ".">>
                    \/ (~initial_slashes /\ acc = <<>>)
                    \/ (acc # <<>> /\ acc[Len(acc)] = <<".", ".">>)
                 THEN NormComps(rest, Append(acc, comp), initial_slashes)
                 ELSE IF acc # <<>>
                      THEN NormComps(rest, SubSeq(acc, 1, Len(acc) - 1), initial_slashes)
                      ELSE NormComps(rest, acc, initial_slashes)

normpath(path) ==
    IF path = <<>> THEN <<".">>
    ELSE LET initial_slashes == StartsWith(path, <<"/">>)
             joined == JoinSlash(NormComps(SplitSlash(path), <<>>, initial_slashes))
             out == IF initial_slashes THEN <<"/">> \o joined ELSE joined
         IN IF out = <<>> THEN <<".">> ELSE out

\* posixpath.splitext(path)[1]: from the last dot of the last component, unless
\* only dots precede it in that component
splitext_ext(path) ==
    LET comps == SplitSlash(path)
        name == comps[Len(comps)]
        dots == {i \in 1..Len(name) : name[i] = "."}
    IN IF dots = {} THEN <<>>
       ELSE LET last == CHOOSE i \in dots : \A j \in dots : j <= i
            IN IF \A k \in 1..(last - 1) : name[k] = "." THEN <<>>
               ELSE SubSeq(name, last, Len(name))

---------------------------------------------------------------------------
(* The served directory and the host's MIME table *)

\* os.getcwd() after os.chdir(".")
web_dir == <<"/", "r">>

F_INDEX == web_dir \o <<"/", "i", "n", "d", "e", "x", ".", "h", "t", "m", "l">>
F_PAGE == web_dir \o <<"/", "p", ".", "h", "t", "m", "l">>
F_APP == web_dir \o <<"/", "a", ".", "j", "s">>
F_JSON == web_dir \o <<"/", "j", ".", "j", "s", "o", "n">>
F_BLOB == web_dir \o <<"/", "b", ".", "x", "y", "z">>
F_GZ == web_dir \o <<"/", "c", ".", "g", "z">>
F_UPPER == web_dir \o <<"/", "d", ".", "H", "T", "M", "L">>
D_SUB == web_dir \o <<"/", "s">>

AllFiles == {F_INDEX, F_PAGE, F_APP, F_JSON, F_BLOB, F_GZ, F_UPPER}

\* Directory contents a request may find: files, directories, files that
\* open() refuses (OSError) and directories that os.listdir() refuses.
FsConfigs ==
    { [files |-> AllFiles, dirs |-> {web_dir, D_SUB}, unreadable |-> {}, unlistable |-> {}],
      [files |-> AllFiles \ {F_INDEX}, dirs |-> {web_dir, D_SUB},
       unreadable |-> {F_APP, F_PAGE}, unlistable |-> {D_SUB}],
      [files |-> {F_INDEX}, dirs |-> {web_dir}, unreadable |-> {}, unlistable |-> {}] }

EXT_JSON == <<".", "j", "s", "o", "n">>

\* mimetypes.types_map as the host builds it (built-in defaults merged with the
\* system's mime.types files or registry); "" is "no entry".
MimeTables ==
    { [e \in {DOT_HTML, DOT_JS, EXT_JSON} |->
         CASE e = DOT_HTML -> "text/html" [] e = DOT_JS -> "text/javascript"
           [] OTHER -> "application/json"],
      [e \in {DOT_HTML, DOT_JS, EXT_JSON} |->
         CASE e = DOT_HTML -> "text/html" [] e = DOT_JS -> "application/javascript"
           [] OTHER -> ""],
      [e \in {DOT_HTML, DOT_JS, EXT_JSON} |->
         CASE e = DOT_HTML -> "text/plain" [] e = DOT_JS -> "text/plain"
           [] OTHER -> "application/json"] }

\* SimpleHTTPRequestHandler.extensions_map
extensions_map(ext) ==
    CASE ext = <<".", "g", "z">> -> "application/gzip"
      [] ext = <<".", "Z">> -> "application/octet-stream"
      [] ext = <<".", "b", "z", "2">> -> "application/x-bzip2"
      [] ext = <<".", "x", "z">> -> "application/x-xz"
      [] OTHER -> ""

\* mimetypes.guess_type(path)[0]
mimetypes_guess_type(path) ==
    LET ext == splitext_ext(path)
    IN IF ext \in DOMAIN mimedb /\ mimedb[ext] # "" THEN mimedb[ext]
       ELSE IF Lower(ext) \in DOMAIN mimedb THEN mimedb[Lower(ext)]
       ELSE ""

\* SimpleHTTPRequestHandler.guess_type
super_guess_type(path) ==
    LET ext == splitext_ext(path)
    IN IF extensions_map(ext) # "" THEN extensions_map(ext)
       ELSE IF extensions_map(Lower(ext)) # "" THEN extensions_map(Lower(ext))
       ELSE IF mimetypes_guess_type(path) # "" THEN mimetypes_guess_type(path)
       ELSE "application/octet-stream"

\* guess_type without its .js branch
guess_type_no_js(path) ==
    IF EndsWith(path, DOT_HTML) THEN "text/html"
    ELSE super_guess_type(path)

\* `sub in s`
Contains(s, sub) ==
    \E i \in 1..(Len(s) - Len(sub) + 1) : SubSeq(s, i, i + Len(sub) - 1) = sub

\* guess_type testing `'.html' in path` and `'.js' in path`
guess_type_substring(path) ==
    IF Contains(path, DOT_HTML) THEN "text/html"
    ELSE IF Contains(path, DOT_JS) THEN "text/javascript"
    ELSE super_guess_type(path)

\* CustomRequestHandler.guess_type
guess_type(path) ==
    IF EndsWith(path, DOT_HTML) THEN "text/html"
    ELSE IF EndsWith(path, DOT_JS) THEN "text/javascript"
    ELSE super_guess_type(path)

---------------------------------------------------------------------------
(* Requests *)

R_ROOT == <<"/">>
R_PAGE == <<"/", "p", ".", "h", "t", "m", "l">>
R_PAGE_SLASH == <<"/", "p", ".", "h", "t", "m", "l", "/">>
R_PAGE_UP == <<"/", ".", ".", "/", "p", ".", "h", "t", "m", "l">>
R_APP == <<"/", "a", ".", "j", "s">>
R_APP_QUERY == <<"/", "a", ".", "j", "s", "?", "v">>
R_APP_ESC == <<"/", "a", "%", "2", "E", "j", "s">>
R_JSON == <<"/", "j", ".", "j", "s", "o", "n">>
R_BLOB == <<"/", "b", ".", "x", "y", "z">>
R_GZ == <<"/", "c", ".", "g", "z">>
R_UPPER == <<"/", "d", ".", "H", "T", "M", "L">>
R_SUB == <<"/", "s">>
R_SUB_SLASH == <<"/", "s", "/">>
R_NONE == <<"/", "n", ".", "j", "s">>

Paths ==
    {R_ROOT, R_PAGE, R_PAGE_SLASH, R_PAGE_UP, R_APP, R_APP_QUERY, R_APP_ESC,
     R_JSON, R_BLOB, R_GZ, R_UPPER, R_SUB, R_SUB_SLASH, R_NONE}

Commands == {"GET", "HEAD", "POST"}

\* The last word of a request line of three words or more; "" is a request line
\* that has no version word.
Versions == {"", "HTTP/0.9", "HTTP/1.0", "HTTP/1.1", "HTTP/2.0", "FOO/1.1"}

\* "extraword": a fourth word on the request line (an unencoded space in the
\* target); "linetoolong": a request line of more than 65536 bytes;
\* "headertoolong": a header line http.client refuses.
Defects == {"none", "extraword", "linetoolong", "headertoolong"}

\* If-Modified-Since: absent, not older than the file, older than the file.
Conditionals == {"none", "current", "stale"}

\* Well-formed GET and HEAD requests to every path, conditional or not; for
\* one path every command with every version word, every defect of the
\* request with and without a version word, and a conditional GET whose date
\* is older than the file.
Requests ==
    [command : {"GET", "HEAD"}, path : Paths, version : {"HTTP/1.1"},
     defect : {"none"}, cond : {"none", "current"}]
    \cup [command : Commands, path : {R_PAGE}, version : Versions, defect : {"none"},
          cond : {"none"}]
    \cup [command : {"GET"}, path : {R_PAGE}, version : {"", "HTTP/1.1"},
          defect : Defects, cond : {"none"}]
    \cup [command : {"GET"}, path : {R_PAGE, R_APP}, version : {"HTTP/1.0"},
          defect : {"none"}, cond : Conditionals]

NoRequest ==
    [command |-> "", path |-> <<>>, version |-> "", defect |-> "none", cond |-> "none"]

---------------------------------------------------------------------------
(* BaseHTTPRequestHandler *)

StatusLine(code) == [kind |-> "status", name |-> "HTTP/1.0", value |-> "", code |-> code]
HeaderLine(k, v) == [kind |-> "header", name |-> k, value |-> v, code |-> 0]
BlankLine == [kind |-> "blank", name |-> "", value |-> "", code |-> 0]

HeaderChunk(lines) == [kind |-> "headers", lines |-> lines, what |-> ""]
BodyChunk(what) == [kind |-> "body", lines |-> <<>>, what |-> what]

\* A handler instance as StreamRequestHandler.setup leaves it.
NewHandler(r) ==
    [request_version |-> "", command |-> "", path |-> <<>>, cond |-> r.cond,
     buf |-> <<>>, wfile |-> <<>>, close_connection |-> TRUE, status |-> 0,
     f |-> "none", raised |-> FALSE]

send_response_only(h, code) ==
    IF h.request_version # "HTTP/0.9"
    THEN [h EXCEPT !.buf = Append(@, StatusLine(code))]
    ELSE h

send_header(h, keyword, value) ==
    LET h1 == IF h.request_version # "HTTP/0.9"
              THEN [h EXCEPT !.buf = Append(@, HeaderLine(keyword, value))]
              ELSE h
    IN IF keyword = "Connection" /\ value = "close"
       THEN [h1 EXCEPT !.close_connection = TRUE]
       ELSE h1

flush_headers(h) ==
    [h EXCEPT !.wfile = Append(@, HeaderChunk(h.buf)), !.buf = <<>>]

\* BaseHTTPRequestHandler.end_headers
super_end_headers(h) ==
    IF h.request_version # "HTTP/0.9"
    THEN flush_headers([h EXCEPT !.buf = Append(@, BlankLine)])
    ELSE h

\* end_headers without the two send_header calls
end_headers_plain(h) == super_end_headers(h)

\* end_headers injecting on 200 responses only
end_headers_ok_only(h) ==
    IF h.status = 200
    THEN super_end_headers(
             send_header(send_header(h, "Cross-Origin-Opener-Policy", "same-origin"),
                         "Cross-Origin-Embedder-Policy", "require-corp"))
    ELSE super_end_headers(h)

\* end_headers calling super().end_headers() before the two send_header calls
end_headers_late(h) ==
    send_header(send_header(super_end_headers(h),
                            "Cross-Origin-Opener-Policy", "same-origin"),
                "Cross-Origin-Embedder-Policy", "require-corp")

\* CustomRequestHandler.end_headers
end_headers(h) ==
    super_end_headers(
        send_header(send_header(h, "Cross-Origin-Opener-Policy", "same-origin"),
                    "Cross-Origin-Embedder-Policy", "require-corp"))

send_response(h, code) ==
    send_header(
        send_header(send_response_only([h EXCEPT !.status = code], code),
                    "Server", "SimpleHTTP"),
        "Date", "now")

send_error(h, code) ==
    LET h1 == send_header(send_response(h, code), "Connection", "close")
        body == code >= 200 /\ code \notin {204, 205, 304}
        h2 == IF body
              THEN send_header(send_header(h1, "Content-Type", "text/html;charset=utf-8"),
                               "Content-Length", "len(body)")
              ELSE h1
        h3 == end_headers(h2)
    IN IF h.command # "HEAD" /\ body
       THEN [h3 EXCEPT !.wfile = Append(@, BodyChunk("error"))]
       ELSE h3

VersionWellFormed(v) == v \in {"HTTP/0.9", "HTTP/1.0", "HTTP/1.1", "HTTP/2.0"}

VersionMajor(v) ==
    CASE v = "HTTP/0.9" -> 0 [] v = "HTTP/1.0" -> 1 [] v = "HTTP/1.1" -> 1
      [] OTHER -> 2

\* The words of the request line: command, target, then the extra word and the
\* version word when present.
NumWords(r) ==
    2 + (IF r.defect = "extraword" THEN 1 ELSE 0) + (IF r.version # "" THEN 1 ELSE 0)

LastWord(r) == IF r.version # "" THEN r.version ELSE "b"

\* parse_request; ok is its return value.
parse_request(h0, r) ==
    LET h == [h0 EXCEPT !.command = "", !.request_version = "HTTP/0.9",
                        !.close_connection = TRUE]
        fail(x) == [ok |-> FALSE, h |-> x]
        version == LastWord(r)
    IN IF NumWords(r) >= 3 /\ ~VersionWellFormed(version) THEN fail(send_error(h, 400))
       ELSE IF NumWords(r) >= 3 /\ VersionMajor(version) >= 2 THEN fail(send_error(h, 505))
       ELSE LET hv == IF NumWords(r) >= 3 THEN [h EXCEPT !.request_version = version]
                      ELSE h
            IN IF ~(2 <= NumWords(r) /\ NumWords(r) <= 3) THEN fail(send_error(hv, 400))
               ELSE IF NumWords(r) = 2 /\ r.command # "GET" THEN fail(send_error(hv, 400))
               ELSE LET hp == [hv EXCEPT !.command = r.command, !.path = r.path]
                    IN IF r.defect = "headertoolong" THEN fail(send_error(hp, 431))
                       ELSE [ok |-> TRUE, h |-> hp]

---------------------------------------------------------------------------
(* SimpleHTTPRequestHandler *)

\* urllib.parse.urlsplit(path).path, and the first two lines of translate_path
UrlPath(path) == Before(Before(path, "?"), "#")

RECURSIVE JoinWords(_, _)
JoinWords(path, words) ==
    IF words = <<>> THEN path
    ELSE IF Head(words) \in {<<>>, <<".">>, <<".", ".">>}
         THEN JoinWords(path, Tail(words))
         ELSE JoinWords(path \o <<"/">> \o Head(words), Tail(words))

translate_path(path) ==
    LET p == UrlPath(path)
        trailing_slash == EndsWith(p, <<"/">>)
        joined == JoinWords(web_dir, SplitSlash(normpath(unquote(p))))
    IN IF trailing_slash THEN joined \o <<"/">> ELSE joined

StripSlash(p) == IF EndsWith(p, <<"/">>) THEN SubSeq(p, 1, Len(p) - 1) ELSE p

isdir(path) == StripSlash(path) \in fs.dirs
isfile(path) == path \in fs.files
CanOpen(path) == path \in fs.files /\ path \notin fs.unreadable

list_directory(h, path) ==
    IF path \in fs.unlistable THEN send_error(h, 404)
    ELSE LET h1 == send_header(
                       send_header(send_response(h, 200),
                                   "Content-type", "text/html; charset=utf-8"),
                       "Content-Length", "len(encoded)")
         IN [end_headers(h1) EXCEPT !.f = "listing"]

\* send_head from `ctype = self.guess_type(path)` on
SendFile(h, path) ==
    LET ctype == guess_type(path)
    IN IF EndsWith(path, <<"/">>) THEN send_error(h, 404)
       ELSE IF ~CanOpen(path) THEN send_error(h, 404)
       ELSE IF h.cond = "current" THEN end_headers(send_response(h, 304))
       ELSE LET h1 == send_header(
                          send_header(
                              send_header(send_response(h, 200), "Content-type", ctype),
                              "Content-Length", "st_size"),
                          "Last-Modified", "st_mtime")
            IN [end_headers(h1) EXCEPT !.f = "file"]

send_head(h) ==
    LET path == translate_path(h.path)
        index_html == StripSlash(path) \o <<"/">> \o SubSeq(F_INDEX, Len(web_dir) + 2, Len(F_INDEX))
    IN IF isdir(path)
       THEN IF ~EndsWith(UrlPath(h.path), <<"/">>)
            THEN end_headers(
                     send_header(
                         send_header(send_response(h, 301), "Location", "path/"),
                         "Content-Length", "0"))
            ELSE IF isfile(index_html) THEN SendFile(h, index_html)
            ELSE list_directory(h, StripSlash(path))
       ELSE SendFile(h, path)

\* copyfile raises when `fault` is "io" (a read error, or the peer went away)
do_GET(h, fault) ==
    LET h1 == send_head(h)
    IN IF h1.f = "none" THEN h1
       ELSE IF fault = "io" THEN [h1 EXCEPT !.raised = TRUE]
       ELSE [h1 EXCEPT !.wfile = Append(@, BodyChunk(h1.f))]

do_HEAD(h) == send_head(h)

handle_one_request(r, fault) ==
    IF r.defect = "linetoolong"
    THEN send_error(NewHandler(r), 414)
    ELSE LET parsed == parse_request(NewHandler(r), r)
         IN IF ~parsed.ok THEN parsed.h
            ELSE IF parsed.h.command = "GET" THEN do_GET(parsed.h, fault)
            ELSE IF parsed.h.command = "HEAD" THEN do_HEAD(parsed.h)
            ELSE send_error(parsed.h, 501)

Faults == {"none", "io"}

NoResponse == [wfile |-> <<>>, buf |-> <<>>, status |-> 0, raised |-> FALSE]

Response(h) ==
    [wfile |-> h.wfile, buf |-> h.buf, status |-> h.status, raised |-> h.raised]

---------------------------------------------------------------------------
(* The script *)

\* another default port
port_alt == 8000 + 80

\* port = 8000
port == 8000

\* the address if the script read its first argument as the port
server_address_argv(args) == IF args # <<>> THEN args[1] ELSE port

\* ("", port): the address handed to TCPServer
server_address(args) == port

\* the bind error caught and ignored
bind_error_swallowed == [pc |-> "bound", exitStatus |-> "running"]

\* TCPServer.__init__ raises OSError out of the with statement: nothing
\* catches it, the interpreter prints the traceback and exits with status 1.
bind_error == [pc |-> "failed", exitStatus |-> "exit1"]

StartupLine(p) == [text |-> "Serving at port", port |-> p]

\* the print placed inside the serving loop
serving_stdout_log(out) == Append(out, StartupLine(port))

\* stdout over one iteration of serve_forever: the handler logs to stderr.
serving_stdout(out) == out

\* a serving loop that lets a handler's exception through
serve_forever_reraise(raised) == IF raised THEN "crashed" ELSE "serving"

\* BaseServer._handle_request_noblock: an Exception of the handler goes to
\* handle_error and the loop goes on.
serve_forever_next(raised) == "serving"

Failed(rsp) == rsp.raised \/ rsp.status >= 400

Init ==
    /\ pc = "start"
    /\ argv \in {<<>>, <<9090>>}
    /\ bindAttempts = 0
    /\ bindFailed = FALSE
    /\ boundPort = 0
    /\ stdout = <<>>
    /\ exitStatus = "running"
    /\ served = 0
    /\ failures = 0
    /\ fs \in FsConfigs
    /\ mimedb \in MimeTables
    /\ req = NoRequest
    /\ resp = NoResponse

\* socketserver.TCPServer(("", port), CustomRequestHandler): bind and listen
BindOk ==
    /\ pc = "start"
    /\ bindAttempts' = bindAttempts + 1
    /\ boundPort' = server_address(argv)
    /\ pc' = "bound"
    /\ UNCHANGED <<argv, bindFailed, stdout, exitStatus, served, failures, fs, mimedb,
                   req, resp>>

\* the same call when bind() fails (address in use, permission denied)
BindFail ==
    /\ pc = "start"
    /\ bindAttempts' = bindAttempts + 1
    /\ bindFailed' = TRUE
    /\ pc' = bind_error.pc
    /\ exitStatus' = bind_error.exitStatus
    /\ UNCHANGED <<argv, boundPort, stdout, served, failures, fs, mimedb, req, resp>>

\* print("Serving at port", port), then serve_forever is entered
StartupLog ==
    /\ pc = "bound"
    /\ stdout' = Append(stdout, StartupLine(port))
    /\ pc' = "serving"
    /\ UNCHANGED <<argv, bindAttempts, bindFailed, boundPort, exitStatus, served,
                   failures, fs, mimedb, req, resp>>

\* one iteration of serve_forever: accept, handle one request, close
HandleRequest ==
    /\ pc = "serving"
    /\ served < MaxRequests
    /\ \E r \in Requests :
         \E fault \in (IF r.command = "GET" THEN Faults ELSE {"none"}) :
            /\ req' = r
            /\ resp' = Response(handle_one_request(r, fault))
    /\ failures' = IF Failed(resp') THEN failures + 1 ELSE failures
    /\ pc' = serve_forever_next(resp'.raised)
    /\ served' = served + 1
    /\ stdout' = serving_stdout(stdout)
    /\ UNCHANGED <<argv, bindAttempts, bindFailed, boundPort, exitStatus, fs, mimedb>>

\* the process is terminated from outside
Kill ==
    /\ pc \in {"start", "bound", "serving"}
    /\ pc' = "killed"
    /\ exitStatus' = "signal"
    /\ UNCHANGED <<argv, bindAttempts, bindFailed, boundPort, stdout, served, failures,
                   fs, mimedb, req, resp>>

Next == BindOk \/ BindFail \/ StartupLog \/ HandleRequest \/ Kill

Spec == Init /\ [][Next]_vars

---------------------------------------------------------------------------
(* What a client sees of the last response *)

Handled == served > 0

HasHeaderBlock(rsp) == rsp.wfile # <<>> /\ rsp.wfile[1].kind = "headers"

Block(rsp) == rsp.wfile[1].lines

\* the code of the status line, 0 when the response has none
WireStatus(rsp) ==
    IF HasHeaderBlock(rsp) /\ Block(rsp)[1].kind = "status" THEN Block(rsp)[1].code ELSE 0

\* header field names are case-insensitive
Canon(name) == IF name = "Content-type" THEN "Content-Type" ELSE name

HeaderIndexes(rsp, name) ==
    {i \in 1..Len(Block(rsp)) :
        Block(rsp)[i].kind = "header" /\ Canon(Block(rsp)[i].name) = name}

HeaderValues(rsp, name) ==
    IF HasHeaderBlock(rsp) THEN {Block(rsp)[i].value : i \in HeaderIndexes(rsp, name)}
    ELSE {}

InjectedPresent(rsp) ==
    /\ HasHeaderBlock(rsp)
    /\ "same-origin" \in HeaderValues(rsp, "Cross-Origin-Opener-Policy")
    /\ "require-corp" \in HeaderValues(rsp, "Cross-Origin-Embedder-Policy")

\* the request line carries an HTTP/1.x version word
IsHttp1x(r) == r.version \in {"HTTP/1.0", "HTTP/1.1"}

\* a request the handler dispatches to do_GET or do_HEAD
WellFormedGetOrHead(r) ==
    r.command \in {"GET", "HEAD"} /\ IsHttp1x(r) /\ r.defect = "none"

TargetExists(path) ==
    translate_path(path) \in fs.files \/ StripSlash(translate_path(path)) \in fs.dirs

TargetIsFile(path) == translate_path(path) \in fs.files

\* one header block, written first and whole: the status line, the normal
\* headers, the two injected headers in order and once each, the blank line;
\* nothing left in the header buffer and only body bytes after the block
InjectedLast(rsp) ==
    /\ HasHeaderBlock(rsp)
    /\ rsp.buf = <<>>
    /\ \A i \in 2..Len(rsp.wfile) : rsp.wfile[i].kind = "body"
    /\ LET b == Block(rsp)
           n == Len(b)
       IN /\ n >= 4
          /\ b[n].kind = "blank"
          /\ b[n - 1] = HeaderLine("Cross-Origin-Embedder-Policy", "require-corp")
          /\ b[n - 2] = HeaderLine("Cross-Origin-Opener-Policy", "same-origin")
          /\ HeaderIndexes(rsp, "Cross-Origin-Embedder-Policy") = {n - 1}
          /\ HeaderIndexes(rsp, "Cross-Origin-Opener-Policy") = {n - 2}
          /\ b[1].kind = "status"
          /\ \A i \in 2..(n - 1) : b[i].kind = "header"

---------------------------------------------------------------------------
(* Claims *)

\* C1 as stated: every response, whatever the request, carries a header block
\* with Cross-Origin-Opener-Policy: same-origin and
\* Cross-Origin-Embedder-Policy: require-corp.
C1_EveryRequest == Handled => InjectedPresent(resp)

\* C1 amended: every response to a request whose request line carries an
\* HTTP/1.x version, and the 414 answer to an over-long request line, carries
\* both injected headers whatever its status; a request line with no version
\* word, a malformed version word, HTTP/0.9 or HTTP/2.0 is answered without
\* status line and without header block.
C1_InjectedOnHttp1x ==
    Handled =>
        IF IsHttp1x(req) \/ req.defect = "linetoolong"
        THEN InjectedPresent(resp)
        ELSE ~HasHeaderBlock(resp)

C1_Witness ==
    /\ Handled
    /\ IsHttp1x(req)
    /\ WireStatus(resp) = 301
    /\ InjectedPresent(resp)

\* C2 as stated: every request to a file that exists under the root is answered
\* with Content-Type text/html when the path ends in .html and text/javascript
\* when it ends in .js.
C2_EveryRequest ==
    (Handled /\ TargetIsFile(req.path)) =>
        /\ EndsWith(UrlPath(req.path), DOT_HTML) =>
               HeaderValues(resp, "Content-Type") = {"text/html"}
        /\ EndsWith(UrlPath(req.path), DOT_JS) =>
               HeaderValues(resp, "Content-Type") = {"text/javascript"}

\* C2 amended: a well-formed GET or HEAD request with an HTTP/1.x version to a
\* readable file under the root, unless it is answered 304 Not Modified (an
\* If-Modified-Since date not older than the file), is answered 200 with
\* Content-Type text/html when the path ends in .html and text/javascript when
\* it ends in .js, whatever the host's MIME table says.
C2_OverrideOn200 ==
    (/\ Handled
     /\ WellFormedGetOrHead(req)
     /\ req.cond # "current"
     /\ CanOpen(translate_path(req.path))) =>
        /\ WireStatus(resp) = 200
        /\ EndsWith(UrlPath(req.path), DOT_HTML) =>
               HeaderValues(resp, "Content-Type") = {"text/html"}
        /\ EndsWith(UrlPath(req.path), DOT_JS) =>
               HeaderValues(resp, "Content-Type") = {"text/javascript"}

C2_Witness ==
    /\ Handled
    /\ req.path = R_APP
    /\ mimedb[DOT_JS] = "text/plain"
    /\ WireStatus(resp) = 200
    /\ HeaderValues(resp, "Content-Type") = {"text/javascript"}

\* C3 as stated: every request to a path that does not exist under the root is
\* answered 404 with both injected headers.
C3_EveryRequest ==
    (Handled /\ ~TargetExists(req.path)) =>
        WireStatus(resp) = 404 /\ InjectedPresent(resp)

\* C3 amended: every well-formed GET or HEAD request with an HTTP/1.x version
\* to a path that does not exist under the root is answered 404 with both
\* injected headers.
C3_NotFoundOnGetHead ==
    (Handled /\ WellFormedGetOrHead(req) /\ ~TargetExists(req.path)) =>
        WireStatus(resp) = 404 /\ InjectedPresent(resp)

C3_Witness ==
    /\ Handled
    /\ req.path = R_NONE
    /\ req.command = "HEAD"
    /\ WireStatus(resp) = 404
    /\ InjectedPresent(resp)

\* C4 as stated: invoked with the single argument 9090, the server binds TCP
\* port 9090 and not 8000.
C4_BindsArgument ==
    (argv = <<9090>> /\ boundPort # 0) => (boundPort = 9090 /\ boundPort # 8000)

\* C4 amended: invoked with the single argument 9090, the server binds TCP
\* port 8000: this script never reads its arguments.
C4_ArgumentIgnored == (argv = <<9090>> /\ boundPort # 0) => boundPort = 8000

C4_Witness == argv = <<9090>> /\ pc = "serving" /\ boundPort = 8000

\* C5: invoked with no argument, the server binds TCP port 8000.
C5_DefaultPort == (argv = <<>> /\ pc \in {"bound", "serving"}) => boundPort = 8000

C5_Witness == argv = <<>> /\ pc = "bound" /\ boundPort = 8000 /\ bindAttempts = 1

\* C6: a failed bind is fatal: the process has exited with a nonzero status,
\* bind was called once, no socket is bound, the loop was not entered, no
\* request was served and no step follows.
C6_BindFailureFatal ==
    bindFailed =>
        /\ pc = "failed"
        /\ exitStatus = "exit1"
        /\ bindAttempts = 1
        /\ boundPort = 0
        /\ served = 0
        /\ ~ENABLED Next

C6_Witness == bindFailed /\ pc = "failed" /\ exitStatus = "exit1"

\* C7: once a request was handled, whatever it did (error status, exception
\* in the handler), the server is in its serving loop, where the next request
\* is taken, or was killed from outside; it never exits by itself.
C7_ErrorsDoNotStopServer ==
    /\ Handled => pc \in {"serving", "killed"}
    /\ pc = "killed" => exitStatus = "signal"
    /\ exitStatus = "exit1" => ~Handled

C7_Witness ==
    /\ pc = "serving"
    /\ served = 2
    /\ failures = 1
    /\ ~Failed(resp)
    /\ WireStatus(resp) = 200

\* C8: for a path that ends in neither .html nor .js, guess_type returns what
\* SimpleHTTPRequestHandler.guess_type returns, application/octet-stream for an
\* unknown extension included, and a served file of such a path carries that
\* type.
C8_DefaultForOtherPaths ==
    /\ \A p \in {translate_path(q) : q \in Paths} \cup AllFiles :
          (~EndsWith(p, DOT_HTML) /\ ~EndsWith(p, DOT_JS)) =>
              guess_type(p) = super_guess_type(p)
    /\ guess_type(F_BLOB) = "application/octet-stream"
    /\ (/\ Handled
        /\ WireStatus(resp) = 200
        /\ TargetIsFile(req.path)
        /\ ~EndsWith(translate_path(req.path), DOT_HTML)
        /\ ~EndsWith(translate_path(req.path), DOT_JS)) =>
           HeaderValues(resp, "Content-Type") = {super_guess_type(translate_path(req.path))}

C8_Witness ==
    /\ Handled
    /\ req.path = R_BLOB
    /\ WireStatus(resp) = 200
    /\ HeaderValues(resp, "Content-Type") = {"application/octet-stream"}

\* C9 as stated: in every response the two injected headers are the last two
\* header lines of the block, in order, once each, added before the flush, and
\* no header is added after it.
C9_EveryResponse == Handled => InjectedLast(resp)

\* C9 amended: in every response that has a header block (HTTP/1.x request
\* line, or the 414 answer) the two injected headers are the last two header
\* lines of the block, in order, once each, added before the one flush, and no
\* header is added after it.
C9_InjectedLastOnHttp1x ==
    (Handled /\ (IsHttp1x(req) \/ req.defect = "linetoolong")) => InjectedLast(resp)

C9_Witness ==
    /\ Handled
    /\ InjectedLast(resp)
    /\ Len(resp.wfile) = 2
    /\ Len(Block(resp)) = 9

\* C10: the startup line is written at most once, only with the socket bound,
\* before any request is served, never by the serving loop and never when the
\* bind failed.
C10_StartupLineOnce ==
    /\ Len(stdout) <= 1
    /\ stdout # <<>> => (stdout[1] = StartupLine(boundPort) /\ boundPort # 0)
    /\ (Handled \/ pc = "serving") => Len(stdout) = 1
    /\ pc \in {"start", "bound"} => stdout = <<>>
    /\ bindFailed => stdout = <<>>

C10_Witness == served = 2 /\ Len(stdout) = 1 /\ stdout[1].port = 8000

====
